---- MODULE Spec2Model ----
(***************************************************************************)
(* Model of the two R2 range/conditional request handlers of FlareCloud:   *)
(*   src/unnamed/part_000  - the eager-size variant (metadata probe first) *)
(*   src/r2_worker.js      - the deferred-size variant (capped range,      *)
(*                           reconciled after the fetch)                   *)
(* Strings the code parses or builds (URL path, Range header,              *)
(* Content-Range, Content-Length) are sequences of one-character strings.  *)
(***************************************************************************)
EXTENDS Integers, Sequences, FiniteSets, TLC

\* ------------------------------------------------------------------ bounds
\* longest byte-range-spec (the text after "bytes=") a request carries
MaxBody == 4
\* largest object size held by the bucket
MaxSize == 2
\* longest URL pathname explored for the key normalizer
MaxPath == 5
\* a small positive value configured as env.RANGE_MAX_BYTES
SmallMaxBytes == 2

\* ----------------------------------------------------------------- strings
\* JavaScript null where a string is expected (no real string has an
\* element that is not a single character)
NullStr == <<"null">>

Min(a, b) == IF a <= b THEN a ELSE b
Max(a, b) == IF a >= b THEN a ELSE b

SeqsUpTo(S, n) == UNION {[1..k -> S] : k \in 0..n}

Digits == {"0", "1", "2", "3", "4", "5", "6", "7", "8", "9"}

DigitVal(c) ==
  CASE c = "0" -> 0 [] c = "1" -> 1 [] c = "2" -> 2 [] c = "3" -> 3
    [] c = "4" -> 4 [] c = "5" -> 5 [] c = "6" -> 6 [] c = "7" -> 7
    [] c = "8" -> 8 [] c = "9" -> 9

DigitChar(d) ==
  CASE d = 0 -> "0" [] d = 1 -> "1" [] d = 2 -> "2" [] d = 3 -> "3"
    [] d = 4 -> "4" [] d = 5 -> "5" [] d = 6 -> "6" [] d = 7 -> "7"
    [] d = 8 -> "8" [] d = 9 -> "9"

\* Number(str) for a string of decimal digits (the only strings the range
\* regular expression captures); Number("") is 0
RECURSIVE Number(_)
Number(s) ==
  IF s = <<>> THEN 0
  ELSE 10 * Number(SubSeq(s, 1, Len(s) - 1)) + DigitVal(s[Len(s)])

\* Number.isFinite: every digit string shorter than 309 digits converts to
\* a finite number
NumberIsFinite(n) == n \in Int

RECURSIVE NatString(_)
NatString(n) ==
  IF n < 10 THEN <<DigitChar(n)>>
  ELSE NatString(n \div 10) \o <<DigitChar(n % 10)>>

\* String(n) and template interpolation of an integer
String(n) == IF n < 0 THEN <<"-">> \o NatString(-n) ELSE NatString(n)

StartsWith(s, p) == Len(s) >= Len(p) /\ SubSeq(s, 1, Len(p)) = p

EndsWith(s, p) ==
  Len(s) >= Len(p) /\ SubSeq(s, Len(s) - Len(p) + 1, Len(s)) = p

\* String.prototype.includes
Includes(s, p) ==
  \E i \in 1..(Len(s) - Len(p) + 1) : SubSeq(s, i, i + Len(p) - 1) = p

IndexHtml == <<"i", "n", "d", "e", "x", ".", "h", "t", "m", "l">>

\* ----------------------------------------------------------- key normalizer
HexDigits == {"0", "2", "F"}

HexVal(c) == CASE c = "0" -> 0 [] c = "2" -> 2 [] c = "F" -> 15

\* the character with a given ASCII code, for the codes the escapes over
\* HexDigits can name
Chr(b) ==
  CASE b = 0 -> "NUL" [] b = 2 -> "STX" [] b = 15 -> "SI"
    [] b = 32 -> " " [] b = 34 -> "QUOTE" [] b = 47 -> "/"

\* decodeURIComponent: %XX escapes become the character they encode; a "%"
\* not followed by two hex digits, or an escape of a byte >= 0x80 that is
\* not followed by its UTF-8 continuation escapes (%80..%BF, which cannot
\* be written with HexDigits), throws URIError, modelled as NullStr.
RECURSIVE decodeURIComponent(_)
decodeURIComponent(s) ==
  IF s = <<>> THEN <<>>
  ELSE IF s[1] # "%"
    THEN LET rest == decodeURIComponent(Tail(s))
         IN IF rest = NullStr THEN NullStr ELSE <<s[1]>> \o rest
  ELSE IF Len(s) < 3 \/ s[2] \notin HexDigits \/ s[3] \notin HexDigits
    THEN NullStr
  ELSE LET b == 16 * HexVal(s[2]) + HexVal(s[3])
           rest == decodeURIComponent(SubSeq(s, 4, Len(s)))
       IN IF b >= 128 \/ rest = NullStr THEN NullStr
          ELSE <<Chr(b)>> \o rest

\* key.replace(/^\/+/, "")
RECURSIVE StripLeadingSlashes(_)
StripLeadingSlashes(s) ==
  IF s # <<>> /\ s[1] = "/" THEN StripLeadingSlashes(Tail(s)) ELSE s

normalizeKey(pathname) ==
  LET decoded == decodeURIComponent(pathname)
  IN IF decoded = NullStr THEN NullStr
     ELSE LET key == StripLeadingSlashes(decoded)
          IN IF key = <<>> THEN IndexHtml
             ELSE IF EndsWith(key, <<"/">>) THEN key \o IndexHtml
             ELSE IF Includes(key, <<".", ".">>) \/ Includes(key, <<"NUL">>)
               THEN NullStr
             ELSE key

\* ------------------------------------------------------------ range parsing
BytesEq == <<"b", "y", "t", "e", "s", "=">>

\* JavaScript null / a marker object / a resolved window, as parseRange
\* returns them
RangeNull == [kind |-> "null"]
RangeInvalid == [kind |-> "invalid"]
RangeTooLarge == [kind |-> "tooLarge"]
RangeUnsatisfiable == [kind |-> "unsatisfiable"]
ResolvedRange(offset, length, start, end) ==
  [kind |-> "range", offset |-> offset, length |-> length,
   start |-> start, end |-> end]

\* truthiness of a string-or-null value
Truthy(s) == s # NullStr /\ s # <<>>

\* /^bytes=(\d*)-(\d*)$/ : after "bytes=" exactly one "-" and digits only
RangeRegexMatches(header) ==
  /\ StartsWith(header, BytesEq)
  /\ LET spec == SubSeq(header, Len(BytesEq) + 1, Len(header))
     IN /\ Cardinality({i \in 1..Len(spec) : spec[i] = "-"}) = 1
        /\ \A i \in 1..Len(spec) : spec[i] = "-" \/ spec[i] \in Digits

\* the two capture groups m[1], m[2] of a matching header
RangeCaptures(header) ==
  LET spec == SubSeq(header, Len(BytesEq) + 1, Len(header))
      dash == CHOOSE i \in 1..Len(spec) : spec[i] = "-"
  IN <<SubSeq(spec, 1, dash - 1), SubSeq(spec, dash + 1, Len(spec))>>

hasValidRangeFormat(header) == Truthy(header) /\ RangeRegexMatches(header)

\* the suffix form without the cap of the length at the object's size
SuffixRangeEager_Uncapped(suffix, size) ==
  LET length == suffix
      start == Max(0, size - length)
      end == size - 1
  IN IF ~NumberIsFinite(suffix) \/ suffix <= 0 THEN RangeNull
     ELSE ResolvedRange(start, length, start, end)

\* eager variant, suffix form bytes=-K
SuffixRangeEager(suffix, size) ==
  LET length == Min(suffix, size)
      start == Max(0, size - length)
      end == size - 1
  IN IF ~NumberIsFinite(suffix) \/ suffix <= 0 THEN RangeNull
     ELSE ResolvedRange(start, length, start, end)

\* the open form with the bound on start off by one
OpenRangeEager_StrictBound(start, size) ==
  IF start > size THEN RangeUnsatisfiable
  ELSE LET end == size - 1
           length == size - start
       IN ResolvedRange(start, length, start, end)

\* eager variant, open form bytes=N-
OpenRangeEager(start, size) ==
  IF start >= size THEN RangeUnsatisfiable
  ELSE LET end == size - 1
           length == size - start
       IN ResolvedRange(start, length, start, end)

\* the closed form without the clamp of the end at the last byte
ClosedRangeEager_Unclamped(start, end, size) ==
  IF ~NumberIsFinite(end) \/ end < start THEN RangeNull
  ELSE IF start >= size THEN RangeUnsatisfiable
  ELSE LET length == end - start + 1
       IN ResolvedRange(start, length, start, end)

\* eager variant, closed form bytes=N-M
ClosedRangeEager(start, end, size) ==
  IF ~NumberIsFinite(end) \/ end < start THEN RangeNull
  ELSE IF start >= size THEN RangeUnsatisfiable
  ELSE LET clampedEnd == Min(end, size - 1)
           length == clampedEnd - start + 1
       IN ResolvedRange(start, length, start, clampedEnd)

\* parseRange(rangeHeader, size) of the eager-size variant
parseRangeEager(rangeHeader, size) ==
  IF ~Truthy(rangeHeader) THEN RangeNull
  ELSE IF ~RangeRegexMatches(rangeHeader) THEN RangeNull
  ELSE
    LET startStr == RangeCaptures(rangeHeader)[1]
        endStr == RangeCaptures(rangeHeader)[2]
    IN IF startStr = <<>> /\ endStr = <<>> THEN RangeNull
       ELSE IF startStr = <<>>
         THEN SuffixRangeEager(Number(endStr), size)
       ELSE
         LET start == Number(startStr)
         IN IF ~NumberIsFinite(start) \/ start < 0 THEN RangeNull
            ELSE IF endStr = <<>> THEN OpenRangeEager(start, size)
            ELSE ClosedRangeEager(start, Number(endStr), size)

\* deferred variant, open form bytes=N-
OpenRangeDeferred(start, maxBytes) ==
  LET length == maxBytes
      end == start + length - 1
  IN IF length > maxBytes THEN RangeTooLarge
     ELSE ResolvedRange(start, length, start, end)

\* the closed form without the limit on its length
ClosedRangeDeferred_NoLimit(start, end, maxBytes) ==
  IF ~NumberIsFinite(end) \/ end < start THEN RangeInvalid
  ELSE ResolvedRange(start, end - start + 1, start, end)

\* deferred variant, closed form bytes=N-M
ClosedRangeDeferred(start, end, maxBytes) ==
  IF ~NumberIsFinite(end) \/ end < start THEN RangeInvalid
  ELSE LET length == end - start + 1
       IN IF length > maxBytes THEN RangeTooLarge
          ELSE ResolvedRange(start, length, start, end)

\* parseRange(rangeHeader, maxBytes) of the deferred-size variant
parseRangeDeferred(rangeHeader, maxBytes) ==
  IF ~Truthy(rangeHeader) THEN RangeNull
  ELSE IF ~RangeRegexMatches(rangeHeader) THEN RangeInvalid
  ELSE
    LET startStr == RangeCaptures(rangeHeader)[1]
        endStr == RangeCaptures(rangeHeader)[2]
    IN IF startStr = <<>> /\ endStr = <<>> THEN RangeInvalid
       ELSE IF startStr = <<>> THEN RangeInvalid
       ELSE
         LET start == Number(startStr)
         IN IF ~NumberIsFinite(start) \/ start < 0 THEN RangeInvalid
            ELSE IF endStr = <<>> THEN OpenRangeDeferred(start, maxBytes)
            ELSE ClosedRangeDeferred(start, Number(endStr), maxBytes)

DEFAULT_MAX_RANGE_BYTES == 8 * 1024 * 1024

\* env.RANGE_MAX_BYTES: unset (Number(undefined) is NaN) or a number
EnvUnset == [isSet |-> FALSE, RANGE_MAX_BYTES |-> 0]
EnvWith(n) == [isSet |-> TRUE, RANGE_MAX_BYTES |-> n]

getMaxRangeBytes(env) ==
  IF env.isSet /\ NumberIsFinite(env.RANGE_MAX_BYTES)
     /\ env.RANGE_MAX_BYTES > 0
  THEN env.RANGE_MAX_BYTES
  ELSE DEFAULT_MAX_RANGE_BYTES

\* ------------------------------------------------------------ the bucket
\* the one key the bucket may hold an object under
ObjKey == <<"k">>

NullObj == [kind |-> "null"]

\* an object version: size, validators and optional cache-control metadata
\* (cacheControl "" stands for no cache-control metadata)
ObjectVersions ==
  [kind : {"object"}, size : 0..MaxSize, version : {1, 2},
   cacheControl : {"", "no-store"}]

NoBody == [kind |-> "null"]
TextBody(t) == [kind |-> "text", text |-> t]
\* the byte stream the bucket hands out: which version, from which offset,
\* how many bytes
StreamBody(version, first, count) ==
  [kind |-> "stream", version |-> version, first |-> first, count |-> count]

httpEtag(o) == IF o.version = 1 THEN "e1" ELSE "e2"

\* obj.uploaded.toUTCString()
UploadedUTCString(o) ==
  IF o.version = 1 THEN "Thu, 01 Jan 1970 00:00:01 GMT"
  ELSE "Thu, 01 Jan 1970 00:00:02 GMT"

\* the conditional validators a request may carry (If-None-Match), "" for
\* none; they are handed to the bucket as onlyIf: request.headers
Validators == {"", "e1"}

RangeNone == [kind |-> "none"]
RangeOpt(offset, length) ==
  [kind |-> "range", offset |-> offset, length |-> length]

\* env.BUCKET.head(key): metadata only
BucketHead(st, key) ==
  IF key = ObjKey /\ st.kind = "object"
  THEN [kind |-> "object", size |-> st.size, version |-> st.version,
        cacheControl |-> st.cacheControl, body |-> NoBody]
  ELSE NullObj

\* env.BUCKET.get(key, {onlyIf, range}): nothing for a missing key,
\* metadata without a body when the validators match, else metadata with
\* the stream of the requested window of the stored bytes
BucketGet(st, key, onlyIf, range) ==
  IF ~(key = ObjKey /\ st.kind = "object") THEN NullObj
  ELSE
    LET first == IF range.kind = "range" THEN Min(range.offset, st.size)
                 ELSE 0
        count == IF range.kind = "range"
                 THEN Min(range.length, st.size - first)
                 ELSE st.size
    IN [kind |-> "object", size |-> st.size, version |-> st.version,
        cacheControl |-> st.cacheControl,
        body |-> IF onlyIf = httpEtag(st) THEN NoBody
                 ELSE StreamBody(st.version, first, count)]

\* ------------------------------------------------------------ header sets
EmptyHeaders == [n \in {} |-> ""]

HeaderSet(h, name, value) ==
  [n \in (DOMAIN h) \cup {name} |-> IF n = name THEN value ELSE h[n]]

HeaderHas(h, name) == name \in DOMAIN h

\* the 304 headers with Accept-Ranges added as on the other paths
build304Headers_WithAcceptRanges(obj) ==
  LET h1 == HeaderSet(EmptyHeaders, "ETag", httpEtag(obj))
      h2 == HeaderSet(h1, "Last-Modified", UploadedUTCString(obj))
      h3 == HeaderSet(h2, "Accept-Ranges", "bytes")
  IN IF obj.cacheControl # ""
     THEN HeaderSet(h3, "Cache-Control", obj.cacheControl)
     ELSE h3

build304Headers(obj) ==
  LET h1 == HeaderSet(EmptyHeaders, "ETag", httpEtag(obj))
      h2 == HeaderSet(h1, "Last-Modified", UploadedUTCString(obj))
  IN IF obj.cacheControl # ""
     THEN HeaderSet(h2, "Cache-Control", obj.cacheControl)
     ELSE h2

\* obj.writeHttpMetadata(headers): copies the stored HTTP metadata
writeHttpMetadata(obj, headers) ==
  IF obj.cacheControl # ""
  THEN HeaderSet(headers, "Cache-Control", obj.cacheControl)
  ELSE headers

withCommonHeaders(obj, headers) ==
  LET h0 == writeHttpMetadata(obj, headers)
      h1 == HeaderSet(h0, "ETag", httpEtag(obj))
      h2 == HeaderSet(h1, "Last-Modified", UploadedUTCString(obj))
      h3 == HeaderSet(h2, "Accept-Ranges", "bytes")
  IN IF ~HeaderHas(h3, "Cache-Control")
     THEN HeaderSet(h3, "Cache-Control", "public, max-age=3600")
     ELSE h3

BytesSp == <<"b", "y", "t", "e", "s", " ">>

\* `bytes ${start}-${end}/${total}`
ContentRange(start, end, total) ==
  BytesSp \o String(start) \o <<"-">> \o String(end) \o <<"/">>
    \o String(total)

\* `bytes */${total}`
ContentRangeUnsatisfied(total) == BytesSp \o <<"*", "/">> \o String(total)

\* ------------------------------------------------------------ the handler
VARIABLES
  store,   \* the bucket: the object stored under ObjKey, or NullObj
  loc,     \* the request being handled: its inputs read so far, the
           \* handler's local variables, the storage calls issued and the
           \* response
  twin     \* the same request with GET and HEAD exchanged, handled against
           \* the same bucket results

vars == <<store, loc, twin>>

NoResp == [status |-> 0, headers |-> EmptyHeaders, body |-> NoBody]

NewRequest(variant, method, pathname) ==
  [pc |-> "start", variant |-> variant, method |-> method,
   pathname |-> pathname, key |-> NullStr, rangeHeader |-> NullStr,
   maxBytes |-> 0, head |-> NullObj, rangeReq |-> RangeNull,
   obj |-> NullObj, resp |-> NoResp, calls |-> <<>>]

Idle == [NewRequest("none", "GET", <<"/">>) EXCEPT !.pc = "idle"]

\* return new Response(body, {status, headers})
Respond(l, status, headers, body) ==
  [l EXCEPT !.pc = "done",
            !.resp = [status |-> status, headers |-> headers,
                      body |-> body]]

\* await env.BUCKET.head(key)
IssueHead(l) ==
  [l EXCEPT !.pc = "head",
            !.calls = Append(@, [op |-> "head", key |-> l.key,
                                 range |-> RangeNone])]

\* await env.BUCKET.get(key, {onlyIf: request.headers, range})
IssueGet(l, range) ==
  [l EXCEPT !.pc = "get",
            !.calls = Append(@, [op |-> "get", key |-> l.key,
                                 range |-> range])]

\* request.method === "HEAD" ? null : obj.body
BodyFor(method, obj) == IF method = "HEAD" THEN NoBody ELSE obj.body

\* the full-object path after its get, the same in both variants
FullObjectResponse(l, obj) ==
  IF obj = NullObj THEN Respond(l, 404, EmptyHeaders, TextBody("Not Found"))
  ELSE IF obj.body = NoBody
    THEN Respond([l EXCEPT !.obj = obj], 304, build304Headers(obj), NoBody)
  ELSE
    LET headers == HeaderSet(withCommonHeaders(obj, EmptyHeaders),
                             "Content-Length", String(obj.size))
    IN Respond([l EXCEPT !.obj = obj], 200, headers, BodyFor(l.method, obj))

\* eager variant, the ranged path after its get
RangedResponseEager(l, obj) ==
  IF obj = NullObj THEN Respond(l, 404, EmptyHeaders, TextBody("Not Found"))
  ELSE IF obj.body = NoBody
    THEN Respond([l EXCEPT !.obj = obj], 304, build304Headers(obj), NoBody)
  ELSE
    LET size == l.head.size
        h0 == withCommonHeaders(obj, EmptyHeaders)
        h1 == HeaderSet(h0, "Content-Range",
                ContentRange(l.rangeReq.start, l.rangeReq.end, size))
        h2 == HeaderSet(h1, "Content-Length", String(l.rangeReq.length))
    IN Respond([l EXCEPT !.obj = obj], 206, h2, BodyFor(l.method, obj))

\* typeof totalSize === "number"
IsNumber(x) == x \in Int

\* the end as requested, not reconciled with the object's size
ReconciledEnd_Requested(rangeReq, totalSize) == rangeReq.end

\* deferred variant: the end of the window once the object's size is known
ReconciledEnd(rangeReq, totalSize) ==
  IF IsNumber(totalSize)
  THEN Min(rangeReq.start + rangeReq.length - 1, totalSize - 1)
  ELSE rangeReq.end

\* deferred variant, the ranged path after its get
RangedResponseDeferred(l, obj) ==
  IF obj = NullObj THEN Respond(l, 404, EmptyHeaders, TextBody("Not Found"))
  ELSE IF obj.body = NoBody
    THEN Respond([l EXCEPT !.obj = obj], 304, build304Headers(obj), NoBody)
  ELSE
    LET totalSize == obj.size
        rangeReq == l.rangeReq
        h0 == withCommonHeaders(obj, EmptyHeaders)
        end == ReconciledEnd(rangeReq, totalSize)
        length == end - rangeReq.start + 1
        h1 == HeaderSet(h0, "Content-Range",
                ContentRange(rangeReq.start, end, totalSize))
        h2 == HeaderSet(h1, "Content-Length", String(length))
    IN IF IsNumber(totalSize) /\ rangeReq.start >= totalSize
       THEN Respond([l EXCEPT !.obj = obj], 416,
              HeaderSet(EmptyHeaders, "Content-Range",
                        ContentRangeUnsatisfied(totalSize)),
              TextBody("Range Not Satisfiable"))
       ELSE Respond([l EXCEPT !.obj = obj], 206, h2, BodyFor(l.method, obj))

\* method check and key normalization, the same in both variants; Cont is
\* the rest of the handler
MethodAllowed(method) == method = "GET" \/ method = "HEAD"

\* deferred variant: fetch() up to its storage call
fetchDeferredStart(l, hdr, env) ==
  IF ~MethodAllowed(l.method)
  THEN Respond(l, 405, HeaderSet(EmptyHeaders, "Allow", "GET, HEAD"),
               TextBody("Method Not Allowed"))
  ELSE
    LET key == normalizeKey(l.pathname)
        maxBytes == getMaxRangeBytes(env)
        rangeReq == parseRangeDeferred(hdr, maxBytes)
        l1 == [l EXCEPT !.key = key]
        l2 == [l1 EXCEPT !.rangeHeader = hdr, !.maxBytes = maxBytes,
                         !.rangeReq = rangeReq]
    IN IF key = NullStr \/ key = <<>>
       THEN Respond(l1, 400, EmptyHeaders, TextBody("Bad Request"))
       ELSE IF Truthy(hdr) /\ rangeReq.kind \in {"invalid", "tooLarge"}
         THEN Respond(l2, 416, EmptyHeaders,
                      TextBody("Range Not Satisfiable"))
       ELSE IF rangeReq # RangeNull
         THEN IssueGet(l2, RangeOpt(rangeReq.offset, rangeReq.length))
       ELSE IssueGet(l2, RangeNone)

\* eager variant: fetch() up to its first storage call
fetchEagerStart(l, hdr) ==
  IF ~MethodAllowed(l.method)
  THEN Respond(l, 405, HeaderSet(EmptyHeaders, "Allow", "GET, HEAD"),
               TextBody("Method Not Allowed"))
  ELSE
    LET key == normalizeKey(l.pathname)
        l1 == [l EXCEPT !.key = key]
        l2 == [l1 EXCEPT !.rangeHeader = hdr]
    IN IF key = NullStr \/ key = <<>>
       THEN Respond(l1, 400, EmptyHeaders, TextBody("Bad Request"))
       ELSE IF hasValidRangeFormat(hdr) THEN IssueHead(l2)
       ELSE IssueGet(l2, RangeNone)

\* eager variant: fetch() from the probe's result to the next storage call
fetchEagerAfterHead(l, head) ==
  IF head = NullObj
  THEN Respond(l, 404, EmptyHeaders, TextBody("Not Found"))
  ELSE
    LET size == head.size
        rangeReq == parseRangeEager(l.rangeHeader, size)
        l1 == [l EXCEPT !.head = head, !.rangeReq = rangeReq]
    IN IF rangeReq.kind = "unsatisfiable"
       THEN Respond(l1, 416,
              HeaderSet(EmptyHeaders, "Content-Range",
                        ContentRangeUnsatisfied(size)),
              TextBody("Range Not Satisfiable"))
       ELSE IF rangeReq # RangeNull
         THEN IssueGet(l1, RangeOpt(rangeReq.offset, rangeReq.length))
       ELSE IssueGet(l1, RangeNone)

fetchStart(l, hdr, env) ==
  IF l.variant = "eager" THEN fetchEagerStart(l, hdr)
  ELSE fetchDeferredStart(l, hdr, env)

\* fetch() from the get's result to the response
fetchAfterGet(l, obj) ==
  IF l.calls[Len(l.calls)].range = RangeNone THEN FullObjectResponse(l, obj)
  ELSE IF l.variant = "eager" THEN RangedResponseEager(l, obj)
  ELSE RangedResponseDeferred(l, obj)

\* ------------------------------------------------------------------ inputs
Variants == {"eager", "deferred"}
Methods == {"GET", "HEAD", "POST"}

PathAlphabet == {"/", ".", "k", "%", "0", "2", "F"}

\* new URL(request.url).pathname: starts with "/" and holds no "." or ".."
\* segment (the URL parser resolves those)
HasDotSegment(p) ==
  \E i \in 1..Len(p) :
    /\ p[i] = "/"
    /\ \/ /\ Len(p) >= i + 1 /\ p[i + 1] = "."
          /\ (Len(p) = i + 1 \/ p[i + 2] = "/")
       \/ /\ Len(p) >= i + 2 /\ p[i + 1] = "." /\ p[i + 2] = "."
          /\ (Len(p) = i + 2 \/ p[i + 3] = "/")

URLPathnames ==
  {p \in SeqsUpTo(PathAlphabet, MaxPath) :
     p # <<>> /\ p[1] = "/" /\ ~HasDotSegment(p)}

\* the pathnames the full handler is explored with
HandlerPaths ==
  {<<"/", "k">>, <<"/">>, <<"/", "%">>, <<"/", "k", ".", ".", "/">>}

RangeAlphabet == {"0", "1", "-"}

\* request.headers.get("Range"): null, empty, "bytes=" followed by a
\* byte-range-spec, or another unit or a list of ranges
RangeHeaders ==
  {NullStr, <<>>}
    \cup {BytesEq \o b : b \in SeqsUpTo(RangeAlphabet, MaxBody)}
    \cup {<<"i", "t", "e", "m", "s", "=", "0", "-", "1">>,
          BytesEq \o <<"0", "-", "0", ",", "1", "-", "1">>,
          <<" ">> \o BytesEq \o <<"0", "-", "1">>}

Envs == {EnvUnset, EnvWith(0), EnvWith(SmallMaxBytes)}

Flip(method) ==
  IF method = "GET" THEN "HEAD" ELSE IF method = "HEAD" THEN "GET"
  ELSE method

\* ----------------------------------------------------------------- actions
Init ==
  /\ store \in {NullObj} \cup ObjectVersions
  /\ loc = Idle
  /\ twin = Idle

\* a request arrives and the handler runs up to its first await
Start ==
  /\ loc.pc = "idle"
  /\ \E variant \in Variants, method \in Methods, pathname \in HandlerPaths,
        hdr \in RangeHeaders, env \in Envs :
       /\ loc' = fetchStart(NewRequest(variant, method, pathname), hdr, env)
       /\ twin' = fetchStart(NewRequest(variant, Flip(method), pathname),
                             hdr, env)
  /\ UNCHANGED store

\* the metadata probe completes and the handler runs on
HeadReturns ==
  /\ loc.pc = "head"
  /\ loc' = fetchEagerAfterHead(loc, BucketHead(store, loc.key))
  /\ twin' = IF twin.pc = "head"
             THEN fetchEagerAfterHead(twin, BucketHead(store, twin.key))
             ELSE twin
  /\ UNCHANGED store

\* the get completes and the handler builds the response
GetReturns ==
  /\ loc.pc = "get"
  /\ \E onlyIf \in Validators :
       /\ loc' = fetchAfterGet(loc,
                   BucketGet(store, loc.key, onlyIf,
                             loc.calls[Len(loc.calls)].range))
       /\ twin' = IF twin.pc = "get"
                  THEN fetchAfterGet(twin,
                         BucketGet(store, twin.key, onlyIf,
                                   twin.calls[Len(twin.calls)].range))
                  ELSE twin
  /\ UNCHANGED store

\* the response is handed to the runtime and the invocation ends; nothing
\* of it is kept for the next request
Deliver ==
  /\ loc.pc = "done"
  /\ loc' = Idle
  /\ twin' = Idle
  /\ UNCHANGED store

\* another client of the bucket stores a new version of the object, before
\* a request arrives or while the handler waits for the bucket (once the
\* response is built the bucket no longer bears on it)
Put ==
  /\ loc.pc # "done"
  /\ \E o \in ObjectVersions : o # store /\ store' = o
  /\ UNCHANGED <<loc, twin>>

\* another client of the bucket deletes the object, before a request
\* arrives or while the handler waits for the bucket
Delete ==
  /\ loc.pc # "done"
  /\ store # NullObj
  /\ store' = NullObj
  /\ UNCHANGED <<loc, twin>>

Next == Start \/ HeadReturns \/ GetReturns \/ Deliver \/ Put \/ Delete

Spec == Init /\ [][Next]_vars

\* the key normalizer over every pathname up to MaxPath, in front of the
\* handler of a plain GET
InitKey ==
  /\ store = [kind |-> "object", size |-> 1, version |-> 1,
              cacheControl |-> ""]
  /\ loc = Idle
  /\ twin = Idle

StartKey ==
  /\ loc.pc = "idle"
  /\ \E variant \in Variants, pathname \in URLPathnames :
       /\ loc' = fetchStart(NewRequest(variant, "GET", pathname),
                            NullStr, EnvUnset)
       /\ twin' = fetchStart(NewRequest(variant, "HEAD", pathname),
                             NullStr, EnvUnset)
  /\ UNCHANGED store

NextKey == StartKey \/ GetReturns \/ Deliver

SpecKey == InitKey /\ [][NextKey]_vars

TypeOK ==
  /\ store \in {NullObj} \cup ObjectVersions
  /\ loc.pc \in {"idle", "head", "get", "done"}
  /\ loc.resp.status \in {0, 200, 206, 304, 400, 404, 405, 416}

\* ------------------------------------------------- reading a Range header
\* The shape of a Range header as the specification's grammar describes it,
\* read off the text of the header independently of parseRange.
AllDigits(t) == \A i \in 1..Len(t) : t[i] \in Digits

RangeSpecOf(h) == SubSeq(h, Len(BytesEq) + 1, Len(h))

HasUnit(h) == h # NullStr /\ StartsWith(h, BytesEq)

\* bytes=N-M
IsClosedForm(h) ==
  /\ HasUnit(h)
  /\ \E i \in 2..(Len(RangeSpecOf(h)) - 1) :
       /\ RangeSpecOf(h)[i] = "-"
       /\ AllDigits(SubSeq(RangeSpecOf(h), 1, i - 1))
       /\ AllDigits(SubSeq(RangeSpecOf(h), i + 1, Len(RangeSpecOf(h))))

\* bytes=N-
IsOpenForm(h) ==
  /\ HasUnit(h)
  /\ Len(RangeSpecOf(h)) >= 2
  /\ RangeSpecOf(h)[Len(RangeSpecOf(h))] = "-"
  /\ AllDigits(SubSeq(RangeSpecOf(h), 1, Len(RangeSpecOf(h)) - 1))

\* bytes=-K
IsSuffixForm(h) ==
  /\ HasUnit(h)
  /\ Len(RangeSpecOf(h)) >= 2
  /\ RangeSpecOf(h)[1] = "-"
  /\ AllDigits(Tail(RangeSpecOf(h)))

\* bytes=-  (both parts absent)
IsBothAbsent(h) == HasUnit(h) /\ RangeSpecOf(h) = <<"-">>

\* does not match bytes=<start>-<end> at all
IsMalformed(h) ==
  /\ h # NullStr
  /\ ~(IsClosedForm(h) \/ IsOpenForm(h) \/ IsSuffixForm(h)
       \/ IsBothAbsent(h))

DashOf(h) == CHOOSE i \in 1..Len(RangeSpecOf(h)) : RangeSpecOf(h)[i] = "-"

\* N of bytes=N-M and bytes=N-
FirstOf(h) == Number(SubSeq(RangeSpecOf(h), 1, DashOf(h) - 1))

\* M of bytes=N-M, K of bytes=-K
LastOf(h) ==
  Number(SubSeq(RangeSpecOf(h), DashOf(h) + 1, Len(RangeSpecOf(h))))

Probed == loc.variant = "eager" /\ loc.head # NullObj

LastCall == loc.calls[Len(loc.calls)]

\* the ranged get of exactly this window has been issued after the probe
FetchedWindow(start, length) ==
  /\ Len(loc.calls) = 2
  /\ loc.calls[1] = [op |-> "head", key |-> loc.key, range |-> RangeNone]
  /\ loc.calls[2] = [op |-> "get", key |-> loc.key,
                     range |-> RangeOpt(start, length)]

Answered206(start, end, total) ==
  loc.resp.status = 206 =>
    /\ loc.resp.headers["Content-Range"] = ContentRange(start, end, total)
    /\ loc.resp.headers["Content-Length"] = String(end - start + 1)

Answered416(total) ==
  /\ loc.pc = "done"
  /\ loc.resp.status = 416
  /\ loc.resp.headers =
       HeaderSet(EmptyHeaders, "Content-Range",
                 ContentRangeUnsatisfied(total))

\* ------------------------------------------------------------------ claims

\* C2: eager variant, probed size S: a closed range bytes=N-M (N <= M) or an
\* open range bytes=N- with N >= S is answered 416 with Content-Range
\* "bytes */S"; with N < S the window fetched and reported by a 206 has
\* start = N, end = min(M, S-1) (S-1 for the open form), length =
\* end - start + 1, Content-Range "bytes start-end/S" and Content-Length =
\* length.
C2_EagerClosedOpenWindow ==
  (/\ Probed
   /\ \/ IsOpenForm(loc.rangeHeader)
      \/ (IsClosedForm(loc.rangeHeader)
          /\ FirstOf(loc.rangeHeader) <= LastOf(loc.rangeHeader)))
  =>
    LET S == loc.head.size
        N == FirstOf(loc.rangeHeader)
        end == IF IsOpenForm(loc.rangeHeader) THEN S - 1
               ELSE Min(LastOf(loc.rangeHeader), S - 1)
    IN IF N >= S THEN Answered416(S)
       ELSE /\ loc.rangeReq = ResolvedRange(N, end - N + 1, N, end)
            /\ FetchedWindow(N, end - N + 1)
            /\ loc.pc = "done" => loc.resp.status \in {206, 304, 404}
            /\ Answered206(N, end, S)

\* a closed range whose end lies beyond the object was answered 206 with
\* the end clamped to the last byte
C2_Witness ==
  /\ Probed
  /\ IsClosedForm(loc.rangeHeader)
  /\ LastOf(loc.rangeHeader) > loc.head.size - 1
  /\ FirstOf(loc.rangeHeader) = 0
  /\ loc.resp.status = 206
  /\ loc.resp.headers["Content-Range"]
       = ContentRange(0, loc.head.size - 1, loc.head.size)
  /\ loc.resp.headers["Content-Length"] = String(loc.head.size)

\* C3: eager variant, probed size S: a suffix range bytes=-K with K <= 0 is
\* invalid; otherwise the resolved window has length = min(K, S),
\* start = S - length, end = S - 1, so a suffix longer than the object
\* covers the whole object.
C3_EagerSuffixWindow ==
  (Probed /\ IsSuffixForm(loc.rangeHeader)) =>
    LET S == loc.head.size
        K == LastOf(loc.rangeHeader)
        length == Min(K, S)
    IN IF K <= 0
       THEN /\ loc.rangeReq = RangeNull
            /\ LastCall.range = RangeNone
            /\ loc.resp.status \notin {206, 416}
       ELSE /\ loc.rangeReq
                 = ResolvedRange(S - length, length, S - length, S - 1)
            /\ FetchedWindow(S - length, length)
            /\ Answered206(S - length, S - 1, S)

\* a suffix longer than a non-empty object was answered 206 covering the
\* whole object
C3_Witness ==
  /\ Probed
  /\ IsSuffixForm(loc.rangeHeader)
  /\ LastOf(loc.rangeHeader) > loc.head.size
  /\ loc.head.size >= 1
  /\ loc.resp.status = 206
  /\ loc.resp.headers["Content-Range"]
       = ContentRange(0, loc.head.size - 1, loc.head.size)
  /\ loc.resp.headers["Content-Length"] = String(loc.head.size)

\* the cases of an unusable Range header, read off its text
EndBeforeStart(h) == IsClosedForm(h) /\ LastOf(h) < FirstOf(h)

ZeroSuffix(h) == IsSuffixForm(h) /\ LastOf(h) <= 0

\* a closed range longer than the configured maximum
TooLargeFor(h, maxBytes) ==
  /\ IsClosedForm(h)
  /\ LastOf(h) >= FirstOf(h)
  /\ LastOf(h) - FirstOf(h) + 1 > maxBytes

\* a closed or open range that parses, starting at or beyond size
StartsBeyond(h, size) ==
  /\ IsOpenForm(h) \/ (IsClosedForm(h) /\ LastOf(h) >= FirstOf(h))
  /\ FirstOf(h) >= size

\* the get returned an object together with its body
FetchedWithBody == loc.obj # NullObj /\ loc.obj.body # NoBody

C4_ResolvedRangeWellFormed ==
  (loc.rangeReq.kind = "range" /\ loc.pc \in {"get", "done"}) =>
    /\ LastCall.range = RangeOpt(loc.rangeReq.offset, loc.rangeReq.length)
    /\ 0 <= loc.rangeReq.start
    /\ loc.rangeReq.start <= loc.rangeReq.end
    /\ loc.rangeReq.offset = loc.rangeReq.start
    /\ loc.rangeReq.length = loc.rangeReq.end - loc.rangeReq.start + 1
    /\ loc.rangeReq.length >= 1
    /\ loc.variant = "eager" => loc.rangeReq.end <= loc.head.size - 1

\* C5: deferred variant, an accepted range (start, length) whose fetch
\* returns an object with a body and total size T: start >= T is answered
\* 416 with Content-Range "bytes */T"; otherwise 206 with
\* end = min(start + length - 1, T - 1), Content-Range "bytes start-end/T"
\* and Content-Length = end - start + 1, which is the length of the body
\* returned, at most the configured maximum and never past the end of the
\* object; an open range bytes=N- asks for end = N + max - 1.
C5_DeferredReconciled ==
  (/\ loc.variant = "deferred"
   /\ loc.pc = "done"
   /\ loc.rangeReq.kind = "range"
   /\ FetchedWithBody)
  =>
    LET T == loc.obj.size
        start == loc.rangeReq.start
        end == Min(start + loc.rangeReq.length - 1, T - 1)
    IN /\ IsOpenForm(loc.rangeHeader) =>
            /\ start = FirstOf(loc.rangeHeader)
            /\ loc.rangeReq.length = loc.maxBytes
            /\ loc.rangeReq.end = FirstOf(loc.rangeHeader) + loc.maxBytes - 1
       /\ IsClosedForm(loc.rangeHeader) =>
            /\ start = FirstOf(loc.rangeHeader)
            /\ loc.rangeReq.length
                 = LastOf(loc.rangeHeader) - FirstOf(loc.rangeHeader) + 1
       /\ IF start >= T THEN Answered416(T)
          ELSE /\ loc.resp.status = 206
               /\ Answered206(start, end, T)
               /\ end - start + 1 <= loc.maxBytes
               /\ end <= T - 1
               /\ loc.obj.body.first = start
               /\ loc.obj.body.count = end - start + 1
               /\ loc.method = "GET" => loc.resp.body = loc.obj.body

\* an open range answered 206 with an end short of the end asked for
C5_Witness ==
  /\ loc.variant = "deferred"
  /\ loc.pc = "done"
  /\ IsOpenForm(loc.rangeHeader)
  /\ loc.resp.status = 206
  /\ loc.rangeReq.end > loc.obj.size - 1
  /\ loc.resp.headers["Content-Range"]
       = ContentRange(loc.rangeReq.start, loc.obj.size - 1, loc.obj.size)

\* C6: deferred variant, a closed range longer than the configured maximum
\* and every invalid range (a non-empty header that is malformed, a suffix
\* range, both parts absent, end < start) is answered 416 without a
\* Content-Range header and without any storage call; a 416 without
\* Content-Range is always given before any storage call.
C6_RejectedBeforeStorage ==
  /\ (/\ loc.variant = "deferred"
      /\ Truthy(loc.rangeHeader)
      /\ \/ TooLargeFor(loc.rangeHeader, loc.maxBytes)
         \/ IsMalformed(loc.rangeHeader)
         \/ IsSuffixForm(loc.rangeHeader)
         \/ IsBothAbsent(loc.rangeHeader)
         \/ EndBeforeStart(loc.rangeHeader))
     => /\ loc.pc = "done"
        /\ loc.resp.status = 416
        /\ ~HeaderHas(loc.resp.headers, "Content-Range")
        /\ loc.calls = <<>>
  /\ (/\ loc.variant = "deferred"
      /\ loc.resp.status = 416
      /\ ~HeaderHas(loc.resp.headers, "Content-Range"))
     => loc.calls = <<>>

\* a closed range longer than the configured maximum was answered 416
C6_Witness ==
  /\ loc.variant = "deferred"
  /\ TooLargeFor(loc.rangeHeader, loc.maxBytes)
  /\ loc.maxBytes = SmallMaxBytes
  /\ loc.pc = "done"
  /\ loc.resp.status = 416
  /\ loc.calls = <<>>

\* C7 as stated: the key normalizer rejects the path or returns a key with
\* no ".." and no null character, also for paths ending in "/"; a request
\* whose decoded path holds ".." never reaches the bucket and is answered
\* 400.
C7_NoTraversalKey ==
  /\ loc.key # NullStr =>
       /\ ~Includes(loc.key, <<".", ".">>)
       /\ ~Includes(loc.key, <<"NUL">>)
  /\ (/\ loc.pc # "idle"
      /\ decodeURIComponent(loc.pathname) # NullStr
      /\ Includes(decodeURIComponent(loc.pathname), <<".", ".">>))
     => /\ loc.pc = "done"
        /\ loc.resp.status = 400
        /\ loc.calls = <<>>

\* the headers of a 304: ETag, Last-Modified and the object's cache-control
\* if it has one
Exactly304Headers(o) ==
  /\ DOMAIN loc.resp.headers
       = {"ETag", "Last-Modified"}
           \cup (IF o.cacheControl # "" THEN {"Cache-Control"} ELSE {})
  /\ loc.resp.headers["ETag"] = httpEtag(o)
  /\ loc.resp.headers["Last-Modified"] = UploadedUTCString(o)
  /\ o.cacheControl # "" => loc.resp.headers["Cache-Control"] = o.cacheControl

NotModifiedAnswer ==
  /\ loc.resp.status = 304
  /\ Exactly304Headers(loc.obj)
  /\ loc.resp.body = NoBody

FullPayloadAnswer ==
  /\ loc.resp.status \in {200, 206}
  /\ loc.resp.status = 206 <=> LastCall.range # RangeNone
  /\ HeaderHas(loc.resp.headers, "Accept-Ranges")
  /\ loc.resp.headers["Accept-Ranges"] = "bytes"
  /\ HeaderHas(loc.resp.headers, "Cache-Control")
  /\ loc.resp.headers["Cache-Control"]
       = (IF loc.obj.cacheControl # "" THEN loc.obj.cacheControl
          ELSE "public, max-age=3600")
  /\ loc.resp.headers["ETag"] = httpEtag(loc.obj)
  /\ loc.resp.headers["Last-Modified"] = UploadedUTCString(loc.obj)
  /\ HeaderHas(loc.resp.headers, "Content-Length")
  /\ loc.method = "GET" => loc.resp.body = loc.obj.body

\* C8 as stated: in both variants a fetch that returns metadata without a
\* body is answered 304 with exactly ETag, Last-Modified and the object's
\* Cache-Control if any, and a fetch that returns a body is answered with
\* the full 200 or 206 payload, Accept-Ranges: bytes and a Cache-Control.
C8_BodyAlwaysFullPayload ==
  (loc.pc = "done" /\ loc.obj # NullObj) =>
    IF loc.obj.body = NoBody THEN NotModifiedAnswer ELSE FullPayloadAnswer

\* C8 amended: as stated, except that the deferred variant answers a ranged
\* fetch that returned a body with 416 and only Content-Range "bytes */T"
\* when the range starts at or beyond the size T of the object returned.
C8_ConditionalOrPayload ==
  (loc.pc = "done" /\ loc.obj # NullObj) =>
    IF loc.obj.body = NoBody THEN NotModifiedAnswer
    ELSE IF /\ loc.variant = "deferred"
            /\ LastCall.range # RangeNone
            /\ loc.rangeReq.start >= loc.obj.size
      THEN Answered416(loc.obj.size)
    ELSE FullPayloadAnswer

\* a ranged fetch matched the request's validators and was answered 304
\* carrying the object's own Cache-Control
C8_Witness ==
  /\ loc.pc = "done"
  /\ loc.obj # NullObj
  /\ loc.obj.body = NoBody
  /\ LastCall.range # RangeNone
  /\ loc.resp.status = 304
  /\ loc.obj.cacheControl = "no-store"
  /\ HeaderHas(loc.resp.headers, "Cache-Control")

\* C9 as stated: a GET and a HEAD that differ in nothing else make the
\* same storage calls and get the same status and headers, and the HEAD
\* response has an empty body in every outcome.
C9_HeadMirrorsGet ==
  (loc.pc # "idle" /\ MethodAllowed(loc.method)) =>
    /\ twin.method = Flip(loc.method)
    /\ twin.pc = loc.pc
    /\ twin.calls = loc.calls
    /\ twin.resp.status = loc.resp.status
    /\ twin.resp.headers = loc.resp.headers
    /\ (loc.pc = "done" /\ loc.method = "HEAD") => loc.resp.body = NoBody

\* C10 as stated: eager variant, every ranged fetch follows a completed
\* probe of the same key, and a 206 reports the total size, end and length
\* of the object that fetch returned, whatever happens to the object
\* between the probe and the fetch (stated for the windows with
\* start <= end; C4 is about the others).
C10_RangeAgreesWithFetched ==
  loc.variant = "eager" =>
    /\ \A i \in 1..Len(loc.calls) :
         loc.calls[i].range # RangeNone =>
           /\ i > 1
           /\ loc.calls[i - 1].op = "head"
           /\ loc.calls[i - 1].key = loc.calls[i].key
           /\ loc.head # NullObj
    /\ (loc.resp.status = 206 /\ loc.rangeReq.start <= loc.rangeReq.end) =>
         /\ loc.resp.headers["Content-Range"]
              = ContentRange(loc.rangeReq.start, loc.rangeReq.end,
                             loc.obj.size)
         /\ loc.rangeReq.end <= loc.obj.size - 1
         /\ loc.resp.headers["Content-Length"]
              = String(loc.rangeReq.end - loc.rangeReq.start + 1)
         /\ loc.obj.body.count = loc.rangeReq.end - loc.rangeReq.start + 1

====
